---- MODULE Spec2Model ----
(***************************************************************************)
(* Model of src/email-bridge.js: the inbound SMTP receiver                 *)
(* (createBridgeReceiver.onData) and the outbound direct delivery          *)
(* (sendToTraditionalEmail).                                               *)
(*                                                                         *)
(* Strings are sequences of one-character strings, so that split('@') and  *)
(* the file-name sanitising replace() are computed, not assumed.           *)
(* One action runs the handler from the return of one awaited call to the  *)
(* next await (or to the callback): JavaScript runs that stretch without   *)
(* interruption.                                                           *)
(***************************************************************************)
EXTENDS Integers, Sequences, FiniteSets, TLC

\* ------------------------------------------------------------------ bounds
NumConn == 2
MaxAtt == 3

Conn == 1..NumConn

\* ----------------------------------------------------------------- strings
\* JavaScript's undefined, where a string is expected (no one-character
\* string equals it).
Undefined == <<"undefined">>
EmptyStr == <<>>

Alice == <<"a", "@", "x">>
Bob == <<"b", "@", "x">>
Ghost == <<"g", "@", "x">>
List == <<"l", "@", "y">>
Carol == <<"c", "@", "z">>
Dave == <<"d", "@", "w">>
\* a header address with two '@' (a quoted local part)
Nested == <<"a", "@", "x", "@", "y">>

\* a falsy string operand of || : undefined or ''
Falsy(s) == s = Undefined \/ s = EmptyStr

\* a || b on strings
Or(a, b) == IF Falsy(a) THEN b ELSE a

\* arr[i - 1] of a JavaScript array: undefined past its end
At(arr, i) == IF i <= Len(arr) THEN arr[i] ELSE Undefined

RECURSIVE SplitAcc(_, _, _, _)
SplitAcc(s, sep, i, cur) ==
    IF i > Len(s) THEN <<cur>>
    ELSE IF s[i] = sep THEN <<cur>> \o SplitAcc(s, sep, i + 1, <<>>)
    ELSE SplitAcc(s, sep, i + 1, Append(cur, s[i]))

\* String.prototype.split(sep) for a one-character separator
Split(s, sep) == SplitAcc(s, sep, 1, <<>>)

\* -------------------------------------------------- the external directory
\* The provisioned mailboxes (lib/prisma.js is not part of the sources).
Mailboxes ==
    { [id |-> 1, username |-> <<"a">>, domain |-> <<"x">>],
      [id |-> 2, username |-> <<"b">>, domain |-> <<"x">>] }

NoUser == 0

\* findUser(username, domain): the mailbox's user, or null
FindUser(username, domain) ==
    IF \E m \in Mailboxes : m.username = username /\ m.domain = domain
    THEN (CHOOSE m \in Mailboxes : m.username = username /\ m.domain = domain).id
    ELSE NoUser

\* ------------------------------------------------------------------ inputs
\* session.envelope.mailFrom: false, or an object with an address
MailFroms == { [present |-> FALSE, address |-> Undefined],
               [present |-> TRUE, address |-> Dave] }

\* session.envelope.rcptTo: the addresses of the RCPT TO commands, in order
RcptTos == { <<>>, <<Alice>>, <<Ghost>>, <<Bob, Alice>> }

Sessions == [mailFrom : MailFroms, rcptTo : RcptTos]

\* parsed.from / parsed.to: absent, or an object whose value is the array of
\* the header's addresses (address '' when the parser found none in it)
NoHeader == [present |-> FALSE, value |-> <<>>]
Header(addrs) == [present |-> TRUE, value |-> addrs]

FromHeaders == { NoHeader, Header(<<EmptyStr>>), Header(<<Carol>>) }
ToHeaders == { NoHeader, Header(<<Alice>>), Header(<<List>>), Header(<<Nested>>) }

\* att.filename: undefined, or a name with characters that are not file-safe
FileNames == { Undefined, <<"r", " ", ".", "t">> }

\* parsed.attachments: up to MaxAtt attachments; the i-th has i bytes, which
\* tells the attachments of one mail apart whatever their names
AttLists ==
    UNION { { l \in [1..n -> [filename : FileNames, size : 1..MaxAtt]] :
                \A i \in 1..n : l[i].size = i } : n \in 0..MaxAtt }

Mails == [from : FromHeaders, to : ToHeaders, attachments : AttLists]

NoSession == [mailFrom |-> [present |-> FALSE, address |-> Undefined], rcptTo |-> <<>>]
NoMail == [from |-> NoHeader, to |-> NoHeader, attachments |-> <<>>]

\* ------------------------------------------------------------------- state
VARIABLES
    session,            \* per connection: the SMTP envelope of its delivery
    mail,               \* per connection: what simpleParser yields for its stream
    pc,                 \* per connection: the await the handler is suspended at
    fromEmail,          \* per connection: const fromEmail
    toEmail,            \* per connection: const toEmail
    user,               \* per connection: const user (its id, NoUser for null)
    email,              \* per connection: const email (its id, 0 before creation)
    idx,                \* per connection: position of the for-of loop
    key,                \* per connection: const key of the current iteration
    savedAttachments,   \* per connection: const savedAttachments
    attLog,             \* per connection: the per-attachment console lines
    cb,                 \* per connection: the arguments callback was invoked with
    emails,             \* the Message records, by id
    attachmentRecords,  \* the Attachment records, by id
    files,              \* the keys of the files in ATTACHMENTS_DIR
    nextUuid,           \* the number of UUIDs crypto.randomUUID has handed out
    opc,                \* outbound call: the await it is suspended at
    oargs,              \* outbound call: its arguments
    mxRecords,          \* outbound call: how resolveMx settled
    transporters,       \* the transports nodemailer.createTransport created
    sendAttempts,       \* the mailOptions handed to transporter.sendMail
    oresult             \* outbound call: what the caller gets

inVars == <<session, mail, pc, fromEmail, toEmail, user, email, idx, key,
            savedAttachments, attLog, cb>>
storeVars == <<emails, attachmentRecords, files>>
outVars == <<opc, oargs, mxRecords, transporters, sendAttempts, oresult>>
vars == <<inVars, storeVars, nextUuid, outVars>>

\* ------------------------------------------------------ onData: addresses
\* callback() carries no error
NoError == "no error"

\* parsed.from?.value?.[0]?.address
HeaderAddress(h) == IF h.present THEN At(h.value, 1) ELSE Undefined

\* session.envelope.mailFrom?.address
EnvelopeFrom(s) == IF s.mailFrom.present THEN s.mailFrom.address ELSE Undefined

\* mutant: the envelope sender preferred to the From header
FromEmailEnvelopeFirst(s, parsed) ==
    Or(Or(EnvelopeFrom(s), HeaderAddress(parsed.from)), EmptyStr)

FromEmail(s, parsed) ==
    Or(Or(HeaderAddress(parsed.from), EnvelopeFrom(s)), EmptyStr)

\* mutant: the To header preferred to the envelope recipient
ToEmailHeaderFirst(s, parsed) ==
    IF ~Falsy(HeaderAddress(parsed.to))
    THEN HeaderAddress(parsed.to)
    ELSE Or(At(s.rcptTo, 1), EmptyStr)

ToEmail(s, parsed) ==
    IF Len(s.rcptTo) > 0
    THEN s.rcptTo[1]
    ELSE Or(HeaderAddress(parsed.to), EmptyStr)

\* const [username, domain] = toEmail.split('@')
Username(to) == At(Split(to, "@"), 1)
Domain(to) == At(Split(to, "@"), 2)

\* ---------------------------------------------------- onData: attachments
Unnamed == <<"u", "n", "n", "a", "m", "e", "d">>

\* the characters of [a-zA-Z0-9._-] that occur in the inputs
SafeChars == {"r", "t", "u", "n", "a", "m", "e", "d", ".", "_", "-"}

\* (att.filename || 'unnamed').replace(/[^a-zA-Z0-9._-]/g, '_')
SafeName(filename) ==
    LET name == Or(filename, Unnamed)
    IN [i \in 1..Len(name) |-> IF name[i] \in SafeChars THEN name[i] ELSE "_"]

\* mutant: the key is the sanitised file name alone
KeyFromName(n, filename) == SafeName(filename)

\* `${uuid}_${safeName}`, the n-th UUID written as the text of n
Key(n, filename) == <<ToString(n), "_">> \o SafeName(filename)

\* JSON.stringify(savedAttachments): the array's entries in order, each with
\* its own fields; the column holds null until it is written
NoManifest == [written |-> FALSE, entries |-> <<>>]
JSONStringify(saved) == [written |-> TRUE, entries |-> saved]

Atts(c) == mail[c].attachments

Callback(c, err) ==
    /\ cb' = [cb EXCEPT ![c] = Append(@, err)]
    /\ pc' = [pc EXCEPT ![c] = "done"]

\* mutant: callback() invoked before the manifest update is awaited
AfterLoopAckFirst(c, saved) ==
    IF Len(saved) > 0
    THEN /\ pc' = [pc EXCEPT ![c] = "update"]
         /\ cb' = [cb EXCEPT ![c] = Append(@, NoError)]
    ELSE Callback(c, NoError)

\* mutant: the manifest update is issued whether or not anything was stored
AfterLoopAlwaysUpdate(c, saved) ==
    /\ pc' = [pc EXCEPT ![c] = "update"]
    /\ cb' = cb

\* if (savedAttachments.length > 0) await prisma.email.update(...); callback()
AfterLoop(c, saved) ==
    IF Len(saved) > 0
    THEN /\ pc' = [pc EXCEPT ![c] = "update"]
         /\ cb' = cb
    ELSE Callback(c, NoError)

\* The for-of loop entered at attachment i, run to its next await: the
\* attachments i..j-1 throw in writeFileSync and are logged and skipped,
\* attachment j is written and createAttachment is awaited; or (j past the
\* end) the loop is left.  Every iteration draws a UUID first.
Continue(c, i, saved, log) ==
    \E j \in i..(Len(Atts(c)) + 1) :
        LET n == Len(Atts(c))
            k == nextUuid + (j - i) + 1
        IN /\ attLog' = [attLog EXCEPT ![c] =
                            log \o [m \in 1..(j - i) |-> "write failed"]]
           /\ savedAttachments' = [savedAttachments EXCEPT ![c] = saved]
           /\ IF j <= n
              THEN /\ nextUuid' = k
                   /\ key' = [key EXCEPT ![c] = Key(k, Atts(c)[j].filename)]
                   /\ files' = files \cup {Key(k, Atts(c)[j].filename)}
                   /\ idx' = [idx EXCEPT ![c] = j]
                   /\ pc' = [pc EXCEPT ![c] = "createAttachment"]
                   /\ cb' = cb
              ELSE /\ nextUuid' = k - 1
                   /\ key' = key
                   /\ files' = files
                   /\ idx' = [idx EXCEPT ![c] = j]
                   /\ AfterLoop(c, saved)

\* if (parsed.attachments && parsed.attachments.length > 0) { ... } callback()
ProcessAttachments(c) ==
    IF Len(Atts(c)) > 0
    THEN Continue(c, 1, <<>>, <<>>)
    ELSE /\ Callback(c, NoError)
         /\ UNCHANGED <<attLog, savedAttachments, nextUuid, key, files, idx>>

\* ------------------------------------------------------- onData: the steps
\* The sending server reaches the data phase: simpleParser is started.
OnData(c) ==
    /\ pc[c] = "idle"
    /\ pc' = [pc EXCEPT ![c] = "parsing"]
    /\ UNCHANGED <<session, mail, fromEmail, toEmail, user, email, idx, key,
                   savedAttachments, attLog, cb, storeVars, nextUuid, outVars>>

\* mutant: the return after callback(err) is missing
ParseFailedNoReturn(c) ==
    /\ pc[c] = "parsing"
    /\ cb' = [cb EXCEPT ![c] = Append(@, "ParseError")]
    /\ fromEmail' = [fromEmail EXCEPT ![c] = FromEmail(session[c], mail[c])]
    /\ toEmail' = [toEmail EXCEPT ![c] = ToEmail(session[c], mail[c])]
    /\ pc' = [pc EXCEPT ![c] = "findUser"]
    /\ UNCHANGED <<session, mail, user, email, idx, key, savedAttachments,
                   attLog, storeVars, nextUuid, outVars>>

\* simpleParser calls back with an error
ParseFailed(c) ==
    /\ pc[c] = "parsing"
    /\ Callback(c, "ParseError")
    /\ UNCHANGED <<session, mail, fromEmail, toEmail, user, email, idx, key,
                   savedAttachments, attLog, storeVars, nextUuid, outVars>>

\* simpleParser calls back with the parsed mail: up to await findUser
Parsed(c) ==
    /\ pc[c] = "parsing"
    /\ fromEmail' = [fromEmail EXCEPT ![c] = FromEmail(session[c], mail[c])]
    /\ toEmail' = [toEmail EXCEPT ![c] = ToEmail(session[c], mail[c])]
    /\ pc' = [pc EXCEPT ![c] = "findUser"]
    /\ UNCHANGED <<session, mail, user, email, idx, key, savedAttachments,
                   attLog, cb, storeVars, nextUuid, outVars>>

\* findUser rejects (the store is unreachable)
FindUserFailed(c) ==
    /\ pc[c] = "findUser"
    /\ Callback(c, "FindUserError")
    /\ UNCHANGED <<session, mail, fromEmail, toEmail, user, email, idx, key,
                   savedAttachments, attLog, storeVars, nextUuid, outVars>>

\* mutant: the check of findUser's result is missing
RecipientNotFoundUnchecked(c) ==
    /\ pc[c] = "findUser"
    /\ FindUser(Username(toEmail[c]), Domain(toEmail[c])) = NoUser
    /\ user' = [user EXCEPT ![c] = NoUser]
    /\ pc' = [pc EXCEPT ![c] = "createEmail"]
    /\ UNCHANGED <<session, mail, fromEmail, toEmail, email, idx, key,
                   savedAttachments, attLog, cb, storeVars, nextUuid, outVars>>

\* mutant: callback(error) in the if, and the throw reaches the catch too
RecipientNotFoundTwice(c) ==
    /\ pc[c] = "findUser"
    /\ FindUser(Username(toEmail[c]), Domain(toEmail[c])) = NoUser
    /\ user' = [user EXCEPT ![c] = NoUser]
    /\ cb' = [cb EXCEPT ![c] = @ \o <<"Recipient not found", "Recipient not found">>]
    /\ pc' = [pc EXCEPT ![c] = "done"]
    /\ UNCHANGED <<session, mail, fromEmail, toEmail, email, idx, key,
                   savedAttachments, attLog, storeVars, nextUuid, outVars>>

\* findUser resolves to null
RecipientNotFound(c) ==
    /\ pc[c] = "findUser"
    /\ FindUser(Username(toEmail[c]), Domain(toEmail[c])) = NoUser
    /\ user' = [user EXCEPT ![c] = NoUser]
    /\ Callback(c, "Recipient not found")
    /\ UNCHANGED <<session, mail, fromEmail, toEmail, email, idx, key,
                   savedAttachments, attLog, storeVars, nextUuid, outVars>>

\* findUser resolves to a user: up to await createEmail
RecipientFound(c) ==
    /\ pc[c] = "findUser"
    /\ FindUser(Username(toEmail[c]), Domain(toEmail[c])) # NoUser
    /\ user' = [user EXCEPT ![c] =
                   FindUser(Username(toEmail[c]), Domain(toEmail[c]))]
    /\ pc' = [pc EXCEPT ![c] = "createEmail"]
    /\ UNCHANGED <<session, mail, fromEmail, toEmail, email, idx, key,
                   savedAttachments, attLog, cb, storeVars, nextUuid, outVars>>

\* mutant: the rejection is reported but the attachments are processed
CreateEmailFailedKeepsGoing(c) ==
    /\ pc[c] = "createEmail"
    /\ cb' = [cb EXCEPT ![c] = Append(@, "CreateEmailError")]
    /\ IF Len(Atts(c)) > 0
       THEN /\ nextUuid' = nextUuid + 1
            /\ key' = [key EXCEPT ![c] = Key(nextUuid + 1, Atts(c)[1].filename)]
            /\ files' = files \cup {Key(nextUuid + 1, Atts(c)[1].filename)}
            /\ idx' = [idx EXCEPT ![c] = 1]
            /\ pc' = [pc EXCEPT ![c] = "createAttachment"]
       ELSE /\ pc' = [pc EXCEPT ![c] = "done"]
            /\ UNCHANGED <<nextUuid, key, files, idx>>
    /\ UNCHANGED <<session, mail, fromEmail, toEmail, user, email,
                   savedAttachments, attLog, emails, attachmentRecords, outVars>>

\* createEmail rejects
CreateEmailFailed(c) ==
    /\ pc[c] = "createEmail"
    /\ Callback(c, "CreateEmailError")
    /\ UNCHANGED <<session, mail, fromEmail, toEmail, user, email, idx, key,
                   savedAttachments, attLog, storeVars, nextUuid, outVars>>

\* the record createEmail is asked to create
EmailData(c) ==
    [ user |-> user[c],
      from_address |-> fromEmail[c],
      from_domain |-> At(Split(fromEmail[c], "@"), 2),
      to_address |-> toEmail[c],
      to_domain |-> Domain(toEmail[c]),
      status |-> "sent",
      folder |-> "inbox",
      attachments |-> NoManifest ]

\* createEmail resolves: up to the next await, or to the callback
EmailCreated(c) ==
    /\ pc[c] = "createEmail"
    /\ emails' = Append(emails, EmailData(c))
    /\ email' = [email EXCEPT ![c] = Len(emails) + 1]
    /\ ProcessAttachments(c)
    /\ UNCHANGED <<session, mail, fromEmail, toEmail, user, attachmentRecords,
                   outVars>>

\* the record createAttachment is asked to create
AttachmentData(c) ==
    [ user_id |-> user[c],
      key |-> key[c],
      filename |-> Or(Atts(c)[idx[c]].filename, Unnamed),
      size |-> Atts(c)[idx[c]].size,
      email_id |-> email[c],
      status |-> "sent" ]

\* the summary pushed onto savedAttachments
Summary(c, id) ==
    [ id |-> id,
      key |-> key[c],
      filename |-> Or(Atts(c)[idx[c]].filename, Unnamed),
      size |-> Atts(c)[idx[c]].size ]

\* mutant: the summary is put in front of savedAttachments
AttachmentCreatedUnshift(c) ==
    /\ pc[c] = "createAttachment"
    /\ attachmentRecords' = Append(attachmentRecords, AttachmentData(c))
    /\ Continue(c, idx[c] + 1,
                <<Summary(c, Len(attachmentRecords) + 1)>> \o savedAttachments[c],
                Append(attLog[c], "saved"))
    /\ UNCHANGED <<session, mail, fromEmail, toEmail, user, email, emails, outVars>>

\* mutant: the record is created but its summary is not pushed
AttachmentCreatedNotPushed(c) ==
    /\ pc[c] = "createAttachment"
    /\ attachmentRecords' = Append(attachmentRecords, AttachmentData(c))
    /\ Continue(c, idx[c] + 1, savedAttachments[c], Append(attLog[c], "saved"))
    /\ UNCHANGED <<session, mail, fromEmail, toEmail, user, email, emails, outVars>>

\* createAttachment resolves: push the summary, go on with the loop
AttachmentCreated(c) ==
    /\ pc[c] = "createAttachment"
    /\ attachmentRecords' = Append(attachmentRecords, AttachmentData(c))
    /\ Continue(c, idx[c] + 1,
                Append(savedAttachments[c], Summary(c, Len(attachmentRecords) + 1)),
                Append(attLog[c], "saved"))
    /\ UNCHANGED <<session, mail, fromEmail, toEmail, user, email, emails, outVars>>

\* mutant: the summary is pushed although the record was not created
AttachmentFailedPushed(c) ==
    /\ pc[c] = "createAttachment"
    /\ Continue(c, idx[c] + 1, Append(savedAttachments[c], Summary(c, 0)),
                Append(attLog[c], "record failed"))
    /\ UNCHANGED <<session, mail, fromEmail, toEmail, user, email, emails,
                   attachmentRecords, outVars>>

\* mutant: no try/catch around one attachment, the outer catch rejects
AttachmentFailedRethrown(c) ==
    /\ pc[c] = "createAttachment"
    /\ attLog' = [attLog EXCEPT ![c] = Append(@, "record failed")]
    /\ Callback(c, "CreateAttachmentError")
    /\ UNCHANGED <<session, mail, fromEmail, toEmail, user, email, idx, key,
                   savedAttachments, storeVars, nextUuid, outVars>>

\* createAttachment rejects: caught, logged, go on with the loop
AttachmentFailed(c) ==
    /\ pc[c] = "createAttachment"
    /\ Continue(c, idx[c] + 1, savedAttachments[c],
                Append(attLog[c], "record failed"))
    /\ UNCHANGED <<session, mail, fromEmail, toEmail, user, email, emails,
                   attachmentRecords, outVars>>

\* mutant: the manifest is written to the newest Message, not to email.id
ManifestUpdatedNewest(c) ==
    /\ pc[c] = "update"
    /\ emails' = [emails EXCEPT ![Len(emails)].attachments =
                     JSONStringify(savedAttachments[c])]
    /\ Callback(c, NoError)
    /\ UNCHANGED <<session, mail, fromEmail, toEmail, user, email, idx, key,
                   savedAttachments, attLog, attachmentRecords, files,
                   nextUuid, outVars>>

\* prisma.email.update resolves: callback()
ManifestUpdated(c) ==
    /\ pc[c] = "update"
    /\ emails' = [emails EXCEPT ![email[c]].attachments =
                     JSONStringify(savedAttachments[c])]
    /\ Callback(c, NoError)
    /\ UNCHANGED <<session, mail, fromEmail, toEmail, user, email, idx, key,
                   savedAttachments, attLog, attachmentRecords, files,
                   nextUuid, outVars>>

\* mutant: the rejection is caught and logged, callback is not invoked
ManifestUpdateFailedSilent(c) ==
    /\ pc[c] = "update"
    /\ pc' = [pc EXCEPT ![c] = "ended"]
    /\ UNCHANGED <<session, mail, fromEmail, toEmail, user, email, idx, key,
                   savedAttachments, attLog, cb, storeVars, nextUuid, outVars>>

\* prisma.email.update rejects: caught by the outer catch, callback(error)
ManifestUpdateFailed(c) ==
    /\ pc[c] = "update"
    /\ Callback(c, "UpdateError")
    /\ UNCHANGED <<session, mail, fromEmail, toEmail, user, email, idx, key,
                   savedAttachments, attLog, storeVars, nextUuid, outVars>>

\* ------------------------------------------------- sendToTraditionalEmail
Remote == <<"b", "@", "r">>
NoAt == <<"b">>
Text == <<"t">>
Html == <<"h">>
MsgId == <<"i">>

\* the arguments of a call: toEmail, htmlBody, options.inReplyTo and
\* options.references vary; fromEmail, subject and textBody do not matter here
OutArgs ==
    [ toEmail : {Remote, NoAt},
      textBody : {Text},
      htmlBody : {Undefined, Html},
      inReplyTo : {Undefined, MsgId},
      references : {Undefined, MsgId} ]

\* how resolveMx settles: it rejects, or resolves to null or to a list of
\* exchanges (the first is the one of highest priority)
Pending == [status |-> "pending", list |-> <<>>]
Rejected == [status |-> "rejected", list |-> <<>>]
NoRecords == [status |-> "null", list |-> <<>>]
Records(l) == [status |-> "list", list |-> l]
MxResults ==
    { NoRecords, Records(<<>>), Records(<<"mx1">>), Records(<<"mx1", "mx2">>) }

\* if (!mxRecords || mxRecords.length === 0)
NoMailServer(r) == r.status = "null" \/ Len(r.list) = 0

\* nodemailer.createTransport({host: mx.exchange, port: 25, ...})
Transport(r) == [host |-> At(r.list, 1), port |-> 25, secure |-> FALSE]

MailOptions(a) ==
    [ to |-> a.toEmail,
      text |-> a.textBody,
      html |-> Or(a.htmlBody, a.textBody),
      inReplyTo |-> IF Falsy(a.inReplyTo) THEN Undefined ELSE a.inReplyTo,
      references |-> IF Falsy(a.references) THEN Undefined ELSE a.references ]

\* a caller calls sendToTraditionalEmail: up to await resolveMx(toDomain)
SendToTraditionalEmail(a) ==
    /\ opc = "idle"
    /\ oargs' = <<a>>
    /\ opc' = "resolveMx"
    /\ UNCHANGED <<inVars, storeVars, nextUuid, mxRecords, transporters,
                   sendAttempts, oresult>>

\* resolveMx rejects: caught, logged, rethrown
ResolveMxFailed ==
    /\ opc = "resolveMx"
    /\ mxRecords' = Rejected
    /\ opc' = "thrown"
    /\ oresult' = "ResolveMxError"
    /\ UNCHANGED <<inVars, storeVars, nextUuid, oargs, transporters,
                   sendAttempts>>

\* mutant: no check of the records, the transport is created in any case
ResolveMxReturnedUnchecked(r) ==
    /\ opc = "resolveMx"
    /\ mxRecords' = r
    /\ transporters' = Append(transporters, Transport(r))
    /\ sendAttempts' = Append(sendAttempts,
           [transporter |-> Len(transporters) + 1,
            mailOptions |-> MailOptions(oargs[1])])
    /\ opc' = "sendMail"
    /\ oresult' = oresult
    /\ UNCHANGED <<inVars, storeVars, nextUuid, oargs>>

\* resolveMx resolves to r: throw when there is no record, else create the
\* transport for the first record and call sendMail on it
ResolveMxReturned(r) ==
    /\ opc = "resolveMx"
    /\ mxRecords' = r
    /\ IF NoMailServer(r)
       THEN /\ opc' = "thrown"
            /\ oresult' = "No mail server found"
            /\ UNCHANGED <<transporters, sendAttempts>>
       ELSE /\ transporters' = Append(transporters, Transport(r))
            /\ sendAttempts' = Append(sendAttempts,
                   [transporter |-> Len(transporters) + 1,
                    mailOptions |-> MailOptions(oargs[1])])
            /\ opc' = "sendMail"
            /\ oresult' = oresult
    /\ UNCHANGED <<inVars, storeVars, nextUuid, oargs>>

\* mutant: the sent mail is recorded in the mailbox store by the function
SendMailReturnedRecorded ==
    /\ opc = "sendMail"
    /\ opc' = "returned"
    /\ oresult' = "info"
    /\ emails' = Append(emails,
           [ user |-> NoUser,
             from_address |-> EmptyStr,
             from_domain |-> Undefined,
             to_address |-> oargs[1].toEmail,
             to_domain |-> Domain(oargs[1].toEmail),
             status |-> "sent",
             folder |-> "sent",
             attachments |-> NoManifest ])
    /\ UNCHANGED <<inVars, attachmentRecords, files, nextUuid, oargs, mxRecords,
                   transporters, sendAttempts>>

\* sendMail resolves: return info
SendMailReturned ==
    /\ opc = "sendMail"
    /\ opc' = "returned"
    /\ oresult' = "info"
    /\ UNCHANGED <<inVars, storeVars, nextUuid, oargs, mxRecords, transporters,
                   sendAttempts>>

\* mutant: on a failed send the next exchange of the list is tried
SendMailFailedFallback(e) ==
    /\ opc = "sendMail"
    /\ IF Len(transporters) < Len(mxRecords.list)
       THEN /\ transporters' = Append(transporters,
                   [host |-> mxRecords.list[Len(transporters) + 1],
                    port |-> 25, secure |-> FALSE])
            /\ sendAttempts' = Append(sendAttempts,
                   [transporter |-> Len(transporters) + 1,
                    mailOptions |-> MailOptions(oargs[1])])
            /\ UNCHANGED <<opc, oresult>>
       ELSE /\ opc' = "thrown"
            /\ oresult' = e
            /\ UNCHANGED <<transporters, sendAttempts>>
    /\ UNCHANGED <<inVars, storeVars, nextUuid, oargs, mxRecords>>

\* sendMail rejects (timeout, refused connection, SMTP rejection): rethrown
SendMailFailed(e) ==
    /\ opc = "sendMail"
    /\ opc' = "thrown"
    /\ oresult' = e
    /\ UNCHANGED <<inVars, storeVars, nextUuid, oargs, mxRecords, transporters,
                   sendAttempts>>

SendErrors == {"ConnectTimeout", "TransportFailure", "TransportRejected"}

\* ------------------------------------------------------------ specification
InitStore ==
    /\ emails = <<>>
    /\ attachmentRecords = <<>>
    /\ files = {}
    /\ nextUuid = 0

InitLocals ==
    /\ fromEmail = [c \in Conn |-> Undefined]
    /\ toEmail = [c \in Conn |-> Undefined]
    /\ user = [c \in Conn |-> NoUser]
    /\ email = [c \in Conn |-> 0]
    /\ idx = [c \in Conn |-> 0]
    /\ key = [c \in Conn |-> Undefined]
    /\ savedAttachments = [c \in Conn |-> <<>>]
    /\ attLog = [c \in Conn |-> <<>>]
    /\ cb = [c \in Conn |-> <<>>]

InitOutIdle ==
    /\ opc = "idle"
    /\ oargs = <<>>
    /\ mxRecords = Pending
    /\ transporters = <<>>
    /\ sendAttempts = <<>>
    /\ oresult = "none"

\* One sending server connects, on any of the connections, with any envelope
\* and any mail.
Init ==
    /\ InitStore
    /\ InitLocals
    /\ InitOutIdle
    /\ \E o \in Conn, s \in Sessions, m \in Mails :
          /\ pc = [c \in Conn |-> IF c = o THEN "idle" ELSE "closed"]
          /\ session = [c \in Conn |-> IF c = o THEN s ELSE NoSession]
          /\ mail = [c \in Conn |-> IF c = o THEN m ELSE NoMail]

\* the next step of delivery c: the awaited call returns or fails
Step(c) ==
    \/ OnData(c)
    \/ ParseFailed(c)
    \/ Parsed(c)
    \/ FindUserFailed(c)
    \/ RecipientNotFound(c)
    \/ RecipientFound(c)
    \/ CreateEmailFailed(c)
    \/ EmailCreated(c)
    \/ AttachmentCreated(c)
    \/ AttachmentFailed(c)
    \/ ManifestUpdated(c)
    \/ ManifestUpdateFailed(c)

Next == \E c \in Conn : Step(c)

Spec == Init /\ [][Next]_vars

\* No sending server is connected; a caller sends one mail.
InitOut ==
    /\ InitStore
    /\ InitLocals
    /\ InitOutIdle
    /\ pc = [c \in Conn |-> "closed"]
    /\ session = [c \in Conn |-> NoSession]
    /\ mail = [c \in Conn |-> NoMail]

NextOut ==
    \/ \E a \in OutArgs : SendToTraditionalEmail(a)
    \/ ResolveMxFailed
    \/ \E r \in MxResults : ResolveMxReturned(r)
    \/ SendMailReturned
    \/ \E e \in SendErrors : SendMailFailed(e)

SpecOut == InitOut /\ [][NextOut]_vars

\* One sending server delivers a mail to alice or to an unknown recipient,
\* with any attachments, while a caller sends one mail: the steps of the two
\* interleave.
InitMix ==
    /\ InitStore
    /\ InitLocals
    /\ InitOutIdle
    /\ \E o \in Conn, l \in AttLists, r \in {<<Alice>>, <<Ghost>>} :
          /\ \A i \in DOMAIN l : l[i].filename # Undefined
          /\ pc = [c \in Conn |-> IF c = o THEN "idle" ELSE "closed"]
          /\ session = [c \in Conn |->
                IF c = o
                THEN [mailFrom |-> [present |-> TRUE, address |-> Dave],
                      rcptTo |-> r]
                ELSE NoSession]
          /\ mail = [c \in Conn |->
                IF c = o
                THEN [from |-> NoHeader, to |-> NoHeader, attachments |-> l]
                ELSE NoMail]

\* The delivery of InitMix alone.  Every call the handler awaits eventually
\* returns or fails, and the event loop then runs the handler on: a delivery
\* with a step to take takes it.
SpecLive == InitMix /\ [][Next]_vars /\ \A c \in Conn : WF_vars(Step(c))

NextMix == Next \/ NextOut

SpecMix == InitMix /\ [][NextMix]_vars

\* the mails delivered when several deliveries run at once: one without and
\* one with an attachment
ConcMails ==
    { [from |-> Header(<<Carol>>), to |-> Header(<<List>>), attachments |-> l] :
        l \in { <<>>, <<[filename |-> <<"r", " ", ".", "t">>, size |-> 1]>> } }

\* Every connection has a delivery in flight, all of the same mail (a mail
\* delivered again, byte for byte), each to alice, to bob or to an unknown
\* recipient; the steps of the deliveries interleave.
InitConc ==
    /\ InitStore
    /\ InitLocals
    /\ InitOutIdle
    /\ pc = [c \in Conn |-> "idle"]
    /\ \E m \in ConcMails, r \in [Conn -> {<<Alice>>, <<Bob, Alice>>, <<Ghost>>}] :
          /\ session = [c \in Conn |->
                [mailFrom |-> [present |-> TRUE, address |-> Dave],
                 rcptTo |-> r[c]]]
          /\ mail = [c \in Conn |-> m]

SpecConc == InitConc /\ [][Next]_vars

\* ================================================================== claims
Open == {c \in Conn : pc[c] # "closed"}

\* what callback was invoked with
Acked(c) == cb[c] = <<NoError>>
RejectedWith(c, err) == cb[c] # <<>> /\ cb[c][1] = err

\* the attachments of c's mail, processed so far, that were not stored
Failures(c) == {i \in DOMAIN attLog[c] : attLog[c][i] # "saved"}

\* the positions, in the mail, of the attachments that were stored, ascending
RECURSIVE SavedFrom(_, _)
SavedFrom(log, i) ==
    IF i > Len(log) THEN <<>>
    ELSE IF log[i] = "saved" THEN <<i>> \o SavedFrom(log, i + 1)
    ELSE SavedFrom(log, i + 1)

\* the manifest of c's Message, as the entries a reader of the column gets
Manifest(c) ==
    IF email[c] \in DOMAIN emails
    THEN emails[email[c]].attachments.entries
    ELSE <<>>

\* nothing of delivery c reached the store or the disk
NothingPersisted(c) ==
    /\ email[c] = 0
    /\ key[c] = Undefined
    /\ attLog[c] = <<>>
    /\ savedAttachments[c] = <<>>

StoreEmpty == emails = <<>> /\ attachmentRecords = <<>> /\ files = {}

\* ----------------------------------------------------------------------- C1
EnvelopeRecipientUnknown(c) ==
    /\ c \in Open
    /\ Len(session[c].rcptTo) > 0
    /\ \A m \in Mailboxes :
          session[c].rcptTo[1] # m.username \o <<"@">> \o m.domain

\* C1: a delivery whose first RCPT TO address matches no provisioned mailbox
\* never gets past findUser, persists nothing (no Message, no Attachment
\* record, no file) and, once finished, has been rejected with an error; and
\* every Message that exists is owned by the mailbox that findUser resolves
\* for the two parts of its to_address.
C1_UnknownRecipientRejected ==
    /\ \A c \in Conn :
          EnvelopeRecipientUnknown(c) =>
             /\ pc[c] \in {"idle", "parsing", "findUser", "done"}
             /\ NothingPersisted(c)
             /\ pc[c] = "done" => (Len(cb[c]) = 1 /\ cb[c][1] # NoError)
    /\ (\A c \in Open : EnvelopeRecipientUnknown(c)) => StoreEmpty
    /\ \A id \in DOMAIN emails :
          /\ emails[id].user # NoUser
          /\ emails[id].user = FindUser(Username(emails[id].to_address),
                                        Domain(emails[id].to_address))
          /\ \E m \in Mailboxes :
                /\ emails[id].user = m.id
                /\ emails[id].to_domain = m.domain

C1_Witness ==
    \E c \in Conn :
       /\ EnvelopeRecipientUnknown(c)
       /\ cb[c] = <<"Recipient not found">>
       /\ Len(Atts(c)) > 0

\* ----------------------------------------------------------------------- C2
ManifestCounts(c) ==
    /\ email[c] \in DOMAIN emails
    /\ Len(Manifest(c)) = Len(Atts(c)) - Cardinality(Failures(c))
    /\ \A i \in DOMAIN Manifest(c) : Len(Manifest(c)[i].key) > 0
    /\ \A i, j \in DOMAIN Manifest(c) :
          i # j => Manifest(c)[i].key # Manifest(c)[j].key

\* C2 as stated: whenever a delivery whose Message was created has finished,
\* the manifest lists the N - K stored attachments.
C2_Original ==
    \A c \in Conn : (pc[c] = "done" /\ email[c] # 0) => ManifestCounts(c)

\* C2, amended: whenever a delivery has finished and was acknowledged, its
\* Message exists and its manifest has exactly N - K entries (K the number
\* of attachments that failed to store), each with a non-empty key, no two
\* with the same key; a delivery whose manifest update failed is rejected
\* with the manifest left empty.
C2_AckedManifestCounts ==
    \A c \in Conn :
       /\ (pc[c] = "done" /\ Acked(c)) => ManifestCounts(c)
       /\ RejectedWith(c, "UpdateError") =>
             (email[c] \in DOMAIN emails /\ Manifest(c) = <<>>)

C2_Witness ==
    \E c \in Conn :
       /\ pc[c] = "done" /\ Acked(c)
       /\ Len(Atts(c)) = 3
       /\ Cardinality(Failures(c)) = 1
       /\ Len(Manifest(c)) = 2

\* ----------------------------------------------------------------------- C3
\* C3: a written manifest lists the stored attachments in the order they
\* have in the parsed mail: its entries are those of the attachments that
\* were saved, by ascending position.
C3_ManifestInMailOrder ==
    \A c \in Conn :
       (email[c] \in DOMAIN emails /\ emails[email[c]].attachments.written) =>
          /\ Len(attLog[c]) = Len(Atts(c))
          /\ Len(Manifest(c)) = Len(SavedFrom(attLog[c], 1))
          /\ \A m \in DOMAIN Manifest(c) :
                LET i == SavedFrom(attLog[c], 1)[m]
                IN /\ Manifest(c)[m].size = Atts(c)[i].size
                   /\ Manifest(c)[m].filename = Or(Atts(c)[i].filename, Unnamed)

C3_Witness ==
    \E c \in Conn :
       /\ Len(Atts(c)) = 3
       /\ attLog[c] = <<"saved", "write failed", "saved">>
       /\ emails[email[c]].attachments.written
       /\ [m \in DOMAIN Manifest(c) |-> Manifest(c)[m].size] = <<1, 3>>

\* ----------------------------------------------------------------------- C4
\* C4: once an attachment of a delivery has failed (disk write or record
\* creation), the Message is still there, the loop goes on with the next
\* attachment until all are processed, and a rejection, if any, is not for
\* the attachment (only a failed manifest update rejects from here on).
C4_AttachmentFailureIsolated ==
    \A c \in Conn :
       Failures(c) # {} =>
          /\ email[c] \in DOMAIN emails
          /\ emails[email[c]].to_address = toEmail[c]
          /\ pc[c] \in {"createAttachment", "update", "done"}
          /\ pc[c] = "createAttachment" => idx[c] = Len(attLog[c]) + 1
          /\ pc[c] \in {"update", "done"} => Len(attLog[c]) = Len(Atts(c))
          /\ cb[c] \in {<<>>, <<NoError>>, <<"UpdateError">>}
          /\ (pc[c] = "done" /\ savedAttachments[c] = <<>>) => Acked(c)

C4_Witness ==
    \E c \in Conn :
       /\ attLog[c] = <<"record failed", "saved", "write failed">>
       /\ Acked(c)
       /\ Len(Manifest(c)) = 1

\* ----------------------------------------------------------------------- C5
\* the recipient the claim names: the first RCPT TO address when there is
\* one, else the first address of the To header (else the empty string)
EnvelopeFirstRecipient(c) ==
    IF session[c].rcptTo # <<>>
    THEN Head(session[c].rcptTo)
    ELSE IF mail[c].to.present /\ mail[c].to.value # <<>>
            /\ ~Falsy(Head(mail[c].to.value))
         THEN Head(mail[c].to.value)
         ELSE EmptyStr

\* C5: the address the mailbox is resolved with, and the Message's
\* to_address, is the first RCPT TO address whenever the envelope has a
\* recipient, whatever the To header; the header counts only without one.
C5_EnvelopeRecipientWins ==
    \A c \in Conn :
       /\ pc[c] \in {"findUser", "createEmail", "createAttachment", "update"} =>
             toEmail[c] = EnvelopeFirstRecipient(c)
       /\ (user[c] # NoUser /\ session[c].rcptTo # <<>>) =>
             \E m \in Mailboxes :
                /\ m.id = user[c]
                /\ m.username \o <<"@">> \o m.domain = Head(session[c].rcptTo)
       /\ email[c] \in DOMAIN emails =>
             emails[email[c]].to_address = EnvelopeFirstRecipient(c)

C5_Witness ==
    \E c \in Conn :
       /\ session[c].rcptTo = <<Bob, Alice>>
       /\ mail[c].to = Header(<<List>>)
       /\ email[c] \in DOMAIN emails
       /\ emails[email[c]].to_address = Bob
       /\ emails[email[c]].user = 2

\* ----------------------------------------------------------------------- C6
\* the sender the claim names
HeaderOrEnvelopeSender(c) ==
    IF mail[c].from.present /\ mail[c].from.value # <<>>
       /\ ~Falsy(Head(mail[c].from.value))
    THEN Head(mail[c].from.value)
    ELSE IF session[c].mailFrom.present
         THEN session[c].mailFrom.address
         ELSE EmptyStr

\* C6: the Message's from_address is the From header's address when the
\* header is there and has one, else the envelope's MAIL FROM address.
C6_HeaderSenderPreferred ==
    \A c \in Conn :
       email[c] \in DOMAIN emails =>
          emails[email[c]].from_address = HeaderOrEnvelopeSender(c)

C6_Witness ==
    \E c \in Conn :
       /\ mail[c].from = Header(<<Carol>>)
       /\ session[c].mailFrom.address = Dave
       /\ email[c] \in DOMAIN emails
       /\ emails[email[c]].from_address = Carol

\* ----------------------------------------------------------------------- C7
\* C7: a delivery whose parse failed got exactly the parse error, is over,
\* and never reached findUser, createEmail, the file write, createAttachment
\* or the manifest update.
C7_ParseFailureRejects ==
    /\ \A c \in Conn :
          (\E i \in DOMAIN cb[c] : cb[c][i] = "ParseError") =>
             /\ cb[c] = <<"ParseError">>
             /\ pc[c] = "done"
             /\ toEmail[c] = Undefined
             /\ user[c] = NoUser
             /\ NothingPersisted(c)
    /\ (\A c \in Open : RejectedWith(c, "ParseError")) => StoreEmpty

C7_Witness ==
    \E c \in Conn :
       /\ cb[c] = <<"ParseError">>
       /\ Len(Atts(c)) > 0
       /\ session[c].rcptTo = <<Alice>>

\* ----------------------------------------------------------------------- C8
\* C8: a delivery whose createEmail failed got that error, is over, and no
\* attachment of it was processed: no key drawn, no file, no Attachment
\* record, no manifest update.
C8_CreateEmailFailureRejects ==
    /\ \A c \in Conn :
          (\E i \in DOMAIN cb[c] : cb[c][i] = "CreateEmailError") =>
             /\ cb[c] = <<"CreateEmailError">>
             /\ pc[c] = "done"
             /\ NothingPersisted(c)
    /\ (\A c \in Open : RejectedWith(c, "CreateEmailError")) =>
          (StoreEmpty /\ nextUuid = 0)

C8_Witness ==
    \E c \in Conn :
       /\ cb[c] = <<"CreateEmailError">>
       /\ user[c] = 1
       /\ Len(Atts(c)) = 2

\* ----------------------------------------------------------------------- C9
\* C9: in every state in which a delivery has been acknowledged, its Message
\* exists, every attachment has been processed, and the manifest holds the
\* stored attachments if there are any; nothing of it is still running.
C9_AckAfterPipeline ==
    \A c \in Conn :
       (\E i \in DOMAIN cb[c] : cb[c][i] = NoError) =>
          /\ pc[c] = "done"
          /\ email[c] \in DOMAIN emails
          /\ Len(attLog[c]) = Len(Atts(c))
          /\ savedAttachments[c] # <<>> =>
                emails[email[c]].attachments = JSONStringify(savedAttachments[c])

C9_Witness ==
    \E c \in Conn :
       /\ Acked(c)
       /\ Len(Atts(c)) = 2
       /\ Len(savedAttachments[c]) = 2
       /\ emails[email[c]].attachments.written

\* ---------------------------------------------------------------------- C10
NoMxRecords ==
    \/ mxRecords.status = "rejected"
    \/ mxRecords.status = "null"
    \/ mxRecords.status = "list" /\ mxRecords.list = <<>>

\* C10: when the resolver finds no MX record (null, an empty list, or it
\* fails) the call throws, and no transport was created and no send tried.
C10_NoMxNoTransport ==
    NoMxRecords =>
       /\ opc = "thrown"
       /\ oresult \in {"ResolveMxError", "No mail server found"}
       /\ transporters = <<>>
       /\ sendAttempts = <<>>

C10_Witness ==
    /\ mxRecords = Records(<<>>)
    /\ opc = "thrown"
    /\ oresult = "No mail server found"

\* ---------------------------------------------------------------------- C11
\* C11: a call creates at most one transport and hands at most one mail to
\* sendMail, and that transport is to the first exchange of the resolver's
\* list; when sendMail fails (timeout, transport failure, rejection) the
\* call has thrown that error to the caller after this one attempt.
C11_SingleAttemptFirstExchange ==
    /\ Len(transporters) <= 1
    /\ Len(sendAttempts) <= 1
    /\ transporters # <<>> =>
          /\ mxRecords.status = "list"
          /\ transporters[1].host = Head(mxRecords.list)
          /\ sendAttempts = <<[transporter |-> 1,
                               mailOptions |-> MailOptions(oargs[1])]>>
    /\ opc = "thrown" => oresult \notin {"none", "info"}
    /\ oresult \in SendErrors =>
          (opc = "thrown" /\ Len(sendAttempts) = 1 /\ Len(transporters) = 1)

C11_Witness ==
    /\ mxRecords = Records(<<"mx1", "mx2">>)
    /\ opc = "thrown"
    /\ oresult = "ConnectTimeout"
    /\ Len(sendAttempts) = 1
    /\ transporters[1].host = "mx1"

\* ---------------------------------------------------------------------- C12
\* C12: no step of sendToTraditionalEmail, on any path, creates or changes a
\* Message record, an Attachment record or an attachment file, whatever an
\* inbound delivery has put in the store by then.
C12_OutboundLeavesStore ==
    [][outVars' # outVars => UNCHANGED <<emails, attachmentRecords, files>>]_vars

C12_Witness ==
    /\ opc = "returned"
    /\ Len(emails) = 1
    /\ Len(attachmentRecords) = 2
    /\ Cardinality(files) = 2
    /\ \E c \in Conn : pc[c] = "update"

\* ---------------------------------------------------------------------- C13
\* the awaits a delivery can be suspended at next, from each one
After(p) ==
    CASE p = "idle" -> {"parsing"}
      [] p = "parsing" -> {"findUser", "done"}
      [] p = "findUser" -> {"createEmail", "done"}
      [] p = "createEmail" -> {"createAttachment", "done"}
      [] p = "createAttachment" -> {"createAttachment", "update", "done"}
      [] p = "update" -> {"done"}
      [] OTHER -> {}

\* one step of delivery c keeps the order of the pipeline
InOrder(c) ==
    /\ pc'[c] # pc[c] => pc'[c] \in After(pc[c])
    /\ toEmail'[c] # toEmail[c] => pc[c] = "parsing"
    /\ user'[c] # user[c] => pc[c] = "findUser"
    /\ email'[c] # email[c] =>
          /\ pc[c] = "createEmail"
          /\ user[c] # NoUser
          /\ email[c] = 0
          /\ email'[c] = Len(emails) + 1
          /\ Len(emails') = Len(emails) + 1
    /\ (key'[c] # key[c] \/ attLog'[c] # attLog[c]
        \/ savedAttachments'[c] # savedAttachments[c]) =>
          /\ pc[c] \in {"createEmail", "createAttachment"}
          /\ email'[c] \in DOMAIN emails'
    /\ (pc'[c] = "update" /\ pc[c] # "update") =>
          /\ Len(attLog'[c]) = Len(Atts(c))
          /\ savedAttachments'[c] # <<>>
    /\ (email[c] \in DOMAIN emails
        /\ emails'[email[c]].attachments # emails[email[c]].attachments) =>
          /\ pc[c] = "update"
          /\ pc'[c] = "done"
          /\ ~emails[email[c]].attachments.written

\* what is in the store was put there by a delivery at the step for it
StoreInOrder ==
    /\ Len(emails') # Len(emails) =>
          \E c \in Conn : pc[c] = "createEmail" /\ email'[c] = Len(emails')
    /\ (files' # files \/ attachmentRecords' # attachmentRecords) =>
          \E c \in Conn :
             /\ pc[c] \in {"createEmail", "createAttachment"}
             /\ email'[c] \in DOMAIN emails'
             /\ key'[c] # key[c] \/ attLog'[c] # attLog[c]

\* C13: every step of a delivery goes from one await to one that comes later
\* in the pipeline (parse, findUser, createEmail, attachments, manifest
\* update, callback); findUser is called only when the parse is done, the
\* Message is created only after findUser resolved, once, and before any key
\* is drawn, file written or Attachment record created; the manifest update
\* is entered only when all attachments are processed and one was stored,
\* and it is left only for the callback, so it is issued at most once.
C13_PipelineOrder ==
    /\ [][(\A c \in Conn : InOrder(c)) /\ StoreInOrder]_vars
    /\ [](\A c \in Conn :
            /\ pc[c] \in {"createAttachment", "update"} => email[c] \in DOMAIN emails
            /\ pc[c] \in {"idle", "parsing", "findUser", "createEmail"} =>
                  NothingPersisted(c))
    /\ [](Len(emails) = Cardinality({c \in Conn : email[c] # 0}))

C13_Witness ==
    \E c \in Conn :
       /\ Acked(c)
       /\ attLog[c] = <<"write failed", "saved", "record failed">>
       /\ Len(emails) = 1
       /\ emails[email[c]].attachments.written
       /\ Len(attachmentRecords) = 1

\* ---------------------------------------------------------------------- C14
\* C14: every Attachment record has the key of a file that was on disk
\* before the record was created (a file without a record may exist), no two
\* records and no two deliveries at work hold the same key, and so a mail
\* delivered again gets new keys and new records for the same attachment.
C14_KeysWrittenFirstAndUnique ==
    /\ [][\A id \in DOMAIN attachmentRecords' :
             id \notin DOMAIN attachmentRecords =>
                attachmentRecords'[id].key \in files]_vars
    /\ [](\A id \in DOMAIN attachmentRecords : attachmentRecords[id].key \in files)
    /\ [](\A i, j \in DOMAIN attachmentRecords :
             i # j => attachmentRecords[i].key # attachmentRecords[j].key)
    /\ [](\A c, d \in Conn :
             (c # d /\ key[c] # Undefined) => key[c] # key[d])
    /\ [](\A c \in Conn : key[c] # Undefined => key[c] \in files)

C14_Witness ==
    /\ Len(attachmentRecords) = 2
    /\ attachmentRecords[1].filename = attachmentRecords[2].filename
    /\ attachmentRecords[1].size = attachmentRecords[2].size
    /\ attachmentRecords[1].user_id = attachmentRecords[2].user_id
    /\ attachmentRecords[1].key # attachmentRecords[2].key
    /\ Cardinality(files) = 2

\* ---------------------------------------------------------------------- C15
\* the ids of the Attachment records delivery c created
RecordsOf(c) == {savedAttachments[c][i].id : i \in DOMAIN savedAttachments[c]}

\* C15: with deliveries interleaved in any way, each delivery's Message is
\* its own (no two share one) and is what the delivery alone would create;
\* every Attachment record it created is linked to that Message and to its
\* mailbox; a written manifest is the delivery's own list of stored
\* attachments, and holds no record of another delivery.
C15_DeliveriesIndependent ==
    \A c \in Conn :
       /\ email[c] # 0 =>
             /\ email[c] \in DOMAIN emails
             /\ \A d \in Conn \ {c} : email[d] # email[c]
             /\ emails[email[c]].user = user[c]
             /\ emails[email[c]].user =
                   FindUser(Username(Head(session[c].rcptTo)),
                            Domain(Head(session[c].rcptTo)))
             /\ emails[email[c]].to_address = Head(session[c].rcptTo)
             /\ emails[email[c]].from_address = HeaderOrEnvelopeSender(c)
       /\ \A id \in RecordsOf(c) :
             /\ id \in DOMAIN attachmentRecords
             /\ attachmentRecords[id].email_id = email[c]
             /\ attachmentRecords[id].user_id = emails[email[c]].user
             /\ \A d \in Conn \ {c} : id \notin RecordsOf(d)
       /\ (email[c] # 0 /\ emails[email[c]].attachments.written) =>
             /\ emails[email[c]].attachments = JSONStringify(savedAttachments[c])
             /\ {Manifest(c)[i].id : i \in DOMAIN Manifest(c)} = RecordsOf(c)
             /\ \A i \in DOMAIN Manifest(c) :
                   attachmentRecords[Manifest(c)[i].id].key = Manifest(c)[i].key
       /\ (pc[c] = "done" /\ Acked(c)) =>
             /\ Len(Manifest(c)) = Len(SavedFrom(attLog[c], 1))
             /\ Len(Manifest(c)) = Len(Atts(c)) - Cardinality(Failures(c))

\* two deliveries, to alice and to bob, that overtook one another: the one
\* whose Message was created second created its Attachment record first
C15_Witness ==
    \E c, d \in Conn :
       /\ Acked(c) /\ Acked(d)
       /\ user[c] = 1 /\ user[d] = 2
       /\ email[c] = 2 /\ email[d] = 1
       /\ RecordsOf(c) = {1} /\ RecordsOf(d) = {2}
       /\ emails[2].attachments.written /\ emails[1].attachments.written

\* ---------------------------------------------------------------------- C16
\* C16 as stated: a delivery that was rejected (callback invoked with an
\* error) has no Message record.
C16_RejectedHasNoMessage ==
    \A c \in Conn :
       (cb[c] # <<>> /\ cb[c][1] # NoError) => email[c] \notin DOMAIN emails

\* ---------------------------------------------------------------------- C17
\* C17: callback is never invoked twice for a delivery; a delivery that is
\* over has had it invoked exactly once, with no error or with one error,
\* and a delivery that is not over has not had it invoked.
C17_CallbackExactlyOnce ==
    \A c \in Conn :
       /\ Len(cb[c]) <= 1
       /\ pc[c] = "done" <=> Len(cb[c]) = 1
       /\ \A i \in DOMAIN cb[c] :
             cb[c][i] \in {NoError, "ParseError", "FindUserError",
                           "Recipient not found", "CreateEmailError",
                           "UpdateError"}

C17_Witness ==
    \E c \in Conn :
       /\ cb[c] = <<"UpdateError">>
       /\ pc[c] = "done"
       /\ attLog[c] = <<"record failed", "saved">>

\* ---------------------------------------------------------------------- C18
\* C18: a delivery that has reached the data phase is eventually over, with
\* callback invoked, whatever its attachments and whichever of them fail.
C18_DeliveryTerminates ==
    \A c \in Conn :
       (pc[c] = "parsing") ~> (pc[c] = "done" /\ Len(cb[c]) = 1)

C18_Witness ==
    \E c \in Conn :
       /\ pc[c] = "done"
       /\ Len(Atts(c)) = 3
       /\ attLog[c] = <<"write failed", "record failed", "write failed">>
       /\ Acked(c)

\* ---------------------------------------------------------------------- C19
\* the Attachment records linked to c's Message
LinkedRecords(c) ==
    {id \in DOMAIN attachmentRecords : attachmentRecords[id].email_id = email[c]}

\* C19: after an acknowledged delivery the manifest entries and the
\* Attachment records linked to the Message match one to one: the entries
\* have distinct ids, these are exactly the ids of the linked records, and
\* each entry has the key of its record.
C19_ManifestMatchesRecords ==
    \A c \in Conn :
       Acked(c) =>
          /\ \A i, j \in DOMAIN Manifest(c) :
                i # j => Manifest(c)[i].id # Manifest(c)[j].id
          /\ {Manifest(c)[i].id : i \in DOMAIN Manifest(c)} = LinkedRecords(c)
          /\ \A i \in DOMAIN Manifest(c) :
                /\ Manifest(c)[i].id \in DOMAIN attachmentRecords
                /\ attachmentRecords[Manifest(c)[i].id].key = Manifest(c)[i].key

C19_Witness ==
    \E c \in Conn :
       /\ Acked(c)
       /\ attLog[c] = <<"saved", "record failed", "saved">>
       /\ Cardinality(LinkedRecords(c)) = 2
       /\ Len(Manifest(c)) = 2

====
